---- MODULE Spec2Model ----
(***************************************************************************)
(* The audio recorder of src/src/thread.rs (the Audio Worker, its command  *)
(* loop, the data callback and the error callback of the input stream) and *)
(* of src/src/recorder.rs (the Session Controller: AUDIO_THREAD,           *)
(* CURRENT_RECORDING and the operations built on with_thread).             *)
(*                                                                         *)
(* Option<T> is a sequence of length 0 (None) or 1 (Some).  The Shared     *)
(* Writer Slot holds the number of an encoder of the heap `encoders`, or 0 *)
(* for None.  Variables whose comment says "history" record what happened  *)
(* and are never read by an action's guard or effect on program state.     *)
(***************************************************************************)
EXTENDS Integers, Sequences, FiniteSets, TLC

\* Bounds of the model.
MaxOps == 4            \* controller operations called in one behaviour
MaxBuffers == 2        \* sample buffers the stream adapter delivers
BufLen == 2            \* samples per delivered buffer
MaxStreamErrors == 1   \* invocations of the stream's error callback
MaxCommands == 4       \* commands a client of the worker sends (SpecWorker)
MaxLines == 4          \* input lines the CLI prototype reads (SpecCli)
\* threads calling the controller
Callers == {1}
RecordingIds == {"take1", "take2"}
DeviceNames == {"default", "missing"}
InstalledDevices == {"default"}
\* bits_per_sample values a caller passes: two the worker supports, one it does not
BitDepths == {16, 20, 32}

VARIABLES
    cmd_chan,       \* mpsc channel of AudioCommand, controller -> worker
    resp_chan,      \* mpsc channel of AudioResponse, worker -> controller
    current_recording_session, \* thread.rs:68, Option<RecordingSession>
    writer,         \* thread.rs:65, the Shared Writer Slot: encoder number or 0
    slot_lock,      \* holder of the slot's Mutex: "free" or "callback"
    encoders,       \* every hound::WavWriter created so far
    files,          \* path -> number of the encoder whose create() made it, 0: absent
    cb_pc,          \* data callback: "idle" or "write" (inside the sample loop)
    cb_idx,         \* data callback: index of the next sample of the buffer
    cb_buf,         \* data callback: number of the buffer being handled
    cb_bits,        \* data callback: bits_per_sample of the captured spec
    cb_sess,        \* data callback: stream (session number) it belongs to
    n_buf,          \* buffers delivered so far
    n_err,          \* error callback invocations so far
    n_streams,      \* streams built so far (build_input_stream returned Ok)
    exited,         \* the worker left its loop (thread.rs:300): the thread is gone
    AUDIO_THREAD,   \* recorder.rs:7, TRUE when Some((tx, rx))
    thread_lock,    \* holder of the AUDIO_THREAD Mutex: 0 or a caller
    CURRENT_RECORDING, \* recorder.rs:11, Option<String>
    pc,             \* caller -> "idle" or "recv" (blocked in rx.recv())
    call,           \* caller -> the operation in progress
    n_ops,          \* operations called so far; numbers the commands
    discarded,      \* history: buffers the callback found the slot empty for
    last_ret,       \* history: the operation that returned last, and its result
    \* the CLI prototype of main.rs, a program of its own
    main_pc,        \* main thread: "read_line", "blocked", "panicked", "returned"
    audio_pc,       \* audio thread: "none", "starting", "running", "exited", "killed"
    audio_tx,       \* main.rs:144, Option<Sender<AudioCommand>>
    current_recording_filename, \* main.rs:145, Option<String>
    cli_rx,         \* main.rs:23, the channel of AudioCommand to the audio thread
    stream_option,  \* main.rs:37, Option<cpal::Stream>
    cli_writer,     \* main.rs:34, the slot of the prototype: encoder number or 0
    cli_encoders,   \* every hound::WavWriter the prototype created
    cli_files,      \* path -> number of the encoder whose create() made it, 0: absent
    cli_n_buf,      \* buffers the prototype's stream delivered
    n_lines         \* input lines main has read

recorder_vars == <<cmd_chan, resp_chan, current_recording_session, writer, slot_lock,
                   encoders, files, cb_pc, cb_idx, cb_buf, cb_bits, cb_sess, n_buf,
                   n_err, n_streams, exited, AUDIO_THREAD, thread_lock,
                   CURRENT_RECORDING, pc, call, n_ops, discarded, last_ret>>

cli_vars == <<main_pc, audio_pc, audio_tx, current_recording_filename, cli_rx,
              stream_option, cli_writer, cli_encoders, cli_files, cli_n_buf, n_lines>>

vars == <<recorder_vars, cli_vars>>

worker_vars == <<current_recording_session, writer, encoders, files, n_streams,
                 exited>>
callback_vars == <<slot_lock, cb_pc, cb_idx, cb_buf, cb_bits, cb_sess, n_buf, discarded>>
controller_vars == <<AUDIO_THREAD, thread_lock, CURRENT_RECORDING, pc, call, n_ops,
                     last_ret>>

----------------------------------------------------------------------------
\* Values

\* recorder.rs:119, format!("{}.wav", recording_id)
Filename(recording_id) == recording_id \o ".wav"

Paths == {Filename(id) : id \in RecordingIds}

\* thread.rs:28-36, AudioCommand; seq is the number of the operation that sent it
Command(type, seq, filename, device_name, bits_per_sample) ==
    [type |-> type, seq |-> seq, filename |-> filename,
     device_name |-> device_name, bits_per_sample |-> bits_per_sample]

\* thread.rs:39-43, AudioResponse; `for` is history: the command it answers,
\* 0 when the stream's error callback sent it
Response(kind, msg, seq) == [kind |-> kind, msg |-> msg, for |-> seq]

\* thread.rs:119-129, the sample format chosen for a bit depth
SampleFormat(bits_per_sample) ==
    CASE bits_per_sample \in {16, 24} -> "Int"
      [] bits_per_sample = 32 -> "Float"
      [] OTHER -> "Unsupported"

\* thread.rs:149-166, the conversion the callback applies under its captured spec
Conversion(bits_per_sample) ==
    CASE SampleFormat(bits_per_sample) = "Float" -> "f32"
      [] bits_per_sample = 16 -> "i16"
      [] bits_per_sample = 24 -> "i24"
      [] OTHER -> "unreachable"

\* thread.rs:221, hound::WavWriter::create(&filename, spec)
NewEncoder(filename, session) ==
    [path |-> filename, bits |-> session.bits, sess |-> session.id,
     samples |-> <<>>, delivered |-> <<>>, closed |-> FALSE, ended |-> "no"]

\* drop of a WavWriter (thread.rs:232, 247, 268): the encoder is closed
Dropped(enc, how) == [enc EXCEPT !.closed = TRUE, !.ended = how]

\* the samples of buffer b, as the stream adapter hands them to the callback
BufferSamples(b) == [i \in 1..BufLen |-> <<b, i>>]

Last(s) == s[Len(s)]

\* the record of a caller that has called nothing yet
NoCall ==
    [op |-> "none", seq |-> 0, filename |-> "",
     pre |-> [writer |-> 0, session |-> <<>>, current |-> <<>>, quiet |-> TRUE]]

----------------------------------------------------------------------------
\* main.rs:9
DEFAULT_BITS_PER_SAMPLE == 32

\* main.rs:195-205, the bits_per_sample of a `start` line; arg is the number
\* typed, 0 when the line has none
ParseBits(arg) == IF arg \in {16, 24, 32} THEN arg ELSE DEFAULT_BITS_PER_SAMPLE

\* main.rs:207-211, the file name of a `start` line; id is "" when the line
\* has none
CliFilename(id) == IF id = "" THEN "output.wav" ELSE Filename(id)

\* what the user types after `start`
CliBitArgs == {0, 16, 20}
CliIdArgs == {"", "take1"}
CliPaths == {CliFilename(id) : id \in CliIdArgs}

\* main.rs:13-20, AudioCommand of the prototype; `by` is history: the input
\* line whose arm sent it
CliCommand(type, filename, bits_per_sample, by) ==
    [type |-> type, filename |-> filename, bits_per_sample |-> bits_per_sample,
     by |-> by]

\* the state when the process starts, with the threads that will call the
\* controller
InitWith(callers) ==
    /\ cmd_chan = <<>>
    /\ resp_chan = <<>>
    /\ current_recording_session = <<>>
    /\ writer = 0
    /\ slot_lock = "free"
    /\ encoders = <<>>
    /\ files = [p \in Paths |-> 0]
    /\ cb_pc = "idle"
    /\ cb_idx = 0
    /\ cb_buf = 0
    /\ cb_bits = 0
    /\ cb_sess = 0
    /\ n_buf = 0
    /\ n_err = 0
    /\ n_streams = 0
    /\ exited = FALSE
    /\ AUDIO_THREAD = FALSE
    /\ thread_lock = 0
    /\ CURRENT_RECORDING = <<>>
    /\ pc = [c \in callers |-> "idle"]
    /\ call = [c \in callers |-> NoCall]
    /\ n_ops = 0
    /\ discarded = {}
    /\ last_ret = [op |-> "none", seq |-> 0, result |-> "none"]
    /\ main_pc = "read_line"
    /\ audio_pc = "none"
    /\ audio_tx = <<>>
    /\ current_recording_filename = <<>>
    /\ cli_rx = <<>>
    /\ stream_option = <<>>
    /\ cli_writer = 0
    /\ cli_encoders = <<>>
    /\ cli_files = [p \in CliPaths |-> 0]
    /\ cli_n_buf = 0
    /\ n_lines = 0

Init == InitWith(Callers)

----------------------------------------------------------------------------
\* The Audio Worker: one action per arm of the command loop of
\* spawn_audio_thread (thread.rs:70-303).  An action is one iteration of the
\* loop: rx.recv(), the arm, the response(s) it sends.  The worker thread
\* exists once ensure_thread_initialized has spawned it, until it leaves the
\* loop.

NextCmd(type) ==
    /\ AUDIO_THREAD
    /\ ~exited
    /\ cmd_chan # <<>>
    /\ Head(cmd_chan).type = type

\* thread.rs:72-81
EnumerateRecordingDevices ==
    /\ NextCmd("EnumerateRecordingDevices")
    /\ LET cmd == Head(cmd_chan) IN
       \E input_devices_ok \in BOOLEAN :
          /\ resp_chan' =
                IF input_devices_ok
                THEN Append(resp_chan, Response("RecordingDeviceList", "devices", cmd.seq))
                ELSE resp_chan \o
                     << Response("Error", "input_devices failed", cmd.seq),
                        Response("RecordingDeviceList", "empty", cmd.seq) >>
    /\ cmd_chan' = Tail(cmd_chan)
    /\ UNCHANGED <<worker_vars, callback_vars, controller_vars, n_err, cli_vars>>

\* What the host and the device answer during one InitRecordingSession.
HostAnswers == {"ok", "input_devices_err", "config_err", "build_err", "play_err"}

\* the mutant of InitVerdict: the already-initialized check (thread.rs:83) left out
InitVerdictNoRefusal(session, cmd, host) ==
    CASE host = "input_devices_err" -> "input_devices failed"
      [] cmd.device_name \notin InstalledDevices -> "Device not found"
      [] host = "config_err" -> "default_input_config failed"
      [] SampleFormat(cmd.bits_per_sample) = "Unsupported" -> "Unsupported bits per sample"
      [] host = "build_err" -> "Failed to build stream"
      [] host = "play_err" -> "Failed to start stream"
      [] OTHER -> "ok"

\* thread.rs:83-193, the checks of InitRecordingSession in the code's order:
\* the error the arm answers with, or "ok"
InitVerdict(session, cmd, host) ==
    CASE session # <<>> -> "Stream already initialized"
      [] host = "input_devices_err" -> "input_devices failed"
      [] cmd.device_name \notin InstalledDevices -> "Device not found"
      [] host = "config_err" -> "default_input_config failed"
      [] SampleFormat(cmd.bits_per_sample) = "Unsupported" -> "Unsupported bits per sample"
      [] host = "build_err" -> "Failed to build stream"
      [] host = "play_err" -> "Failed to start stream"
      [] OTHER -> "ok"

\* the mutant of InitRecordingSession: when stream.play() fails the session
\* is stored with its stream all the same, before the Error is sent
InitRecordingSession_keeps_stream_on_play_error ==
    /\ NextCmd("InitRecordingSession")
    /\ LET cmd == Head(cmd_chan) IN
       \E host \in HostAnswers :
          LET verdict == InitVerdict(current_recording_session, cmd, host) IN
          /\ n_streams' = IF verdict \in {"ok", "Failed to start stream"}
                          THEN n_streams + 1 ELSE n_streams
          /\ current_recording_session' =
                IF verdict \in {"ok", "Failed to start stream"}
                THEN << [id |-> n_streams + 1, bits |-> cmd.bits_per_sample,
                         device_name |-> cmd.device_name] >>
                ELSE current_recording_session
          /\ resp_chan' = Append(resp_chan,
                IF verdict = "ok"
                THEN Response("Success", "Recording session initialized", cmd.seq)
                ELSE Response("Error", verdict, cmd.seq))
    /\ cmd_chan' = Tail(cmd_chan)
    /\ UNCHANGED <<writer, encoders, files, exited, callback_vars, controller_vars,
                   n_err, cli_vars>>

\* thread.rs:82-208
InitRecordingSession ==
    /\ NextCmd("InitRecordingSession")
    /\ LET cmd == Head(cmd_chan) IN
       \E host \in HostAnswers :
          LET verdict == InitVerdict(current_recording_session, cmd, host) IN
          /\ n_streams' = IF verdict \in {"ok", "Failed to start stream"}
                          THEN n_streams + 1 ELSE n_streams
          /\ current_recording_session' =
                IF verdict = "ok"
                THEN << [id |-> n_streams + 1, bits |-> cmd.bits_per_sample,
                         device_name |-> cmd.device_name] >>
                ELSE current_recording_session
          /\ resp_chan' = Append(resp_chan,
                IF verdict = "ok"
                THEN Response("Success", "Recording session initialized", cmd.seq)
                ELSE Response("Error", verdict, cmd.seq))
    /\ cmd_chan' = Tail(cmd_chan)
    /\ UNCHANGED <<writer, encoders, files, exited, callback_vars, controller_vars,
                   n_err, cli_vars>>

\* the mutant of StartRecording: an error of the arm is returned from the
\* thread's closure after the response, instead of `continue`
StartRecording_exits_on_error ==
    /\ NextCmd("StartRecording")
    /\ LET cmd == Head(cmd_chan) IN
       \/ /\ current_recording_session = <<>>
          /\ resp_chan' = Append(resp_chan,
                Response("Error", "Recording session not initialized", cmd.seq))
          /\ exited' = TRUE
          /\ UNCHANGED <<writer, encoders, files>>
       \/ /\ current_recording_session # <<>>
          /\ resp_chan' = Append(resp_chan,
                Response("Error", "Failed to create WAV writer", cmd.seq))
          /\ exited' = TRUE
          /\ UNCHANGED <<writer, encoders, files>>
       \/ /\ current_recording_session # <<>>
          /\ slot_lock = "free"
          /\ LET new == Len(encoders) + 1
                 old == IF writer = 0 THEN encoders
                        ELSE [encoders EXCEPT ![writer] = Dropped(@, "replaced")]
             IN /\ encoders' = Append(old,
                      NewEncoder(cmd.filename, Head(current_recording_session)))
                /\ files' = [files EXCEPT ![cmd.filename] = new]
                /\ writer' = new
          /\ resp_chan' = Append(resp_chan,
                Response("Success", "Recording started", cmd.seq))
          /\ UNCHANGED exited
    /\ cmd_chan' = Tail(cmd_chan)
    /\ UNCHANGED <<current_recording_session, n_streams, callback_vars,
                   controller_vars, n_err, cli_vars>>

\* thread.rs:209-234
StartRecording ==
    /\ NextCmd("StartRecording")
    /\ LET cmd == Head(cmd_chan) IN
       \/ /\ current_recording_session = <<>>
          /\ resp_chan' = Append(resp_chan,
                Response("Error", "Recording session not initialized", cmd.seq))
          /\ UNCHANGED <<writer, encoders, files>>
       \/ /\ current_recording_session # <<>>
          /\ resp_chan' = Append(resp_chan,
                Response("Error", "Failed to create WAV writer", cmd.seq))
          /\ UNCHANGED <<writer, encoders, files>>
       \/ /\ current_recording_session # <<>>
          /\ slot_lock = "free"
          /\ LET new == Len(encoders) + 1
                 old == IF writer = 0 THEN encoders
                        ELSE [encoders EXCEPT ![writer] = Dropped(@, "replaced")]
             IN /\ encoders' = Append(old,
                      NewEncoder(cmd.filename, Head(current_recording_session)))
                /\ files' = [files EXCEPT ![cmd.filename] = new]
                /\ writer' = new
          /\ resp_chan' = Append(resp_chan,
                Response("Success", "Recording started", cmd.seq))
    /\ cmd_chan' = Tail(cmd_chan)
    /\ UNCHANGED <<current_recording_session, n_streams, exited, callback_vars,
                   controller_vars, n_err, cli_vars>>

\* thread.rs:235-255
StopRecording ==
    /\ NextCmd("StopRecording")
    /\ slot_lock = "free"
    /\ LET cmd == Head(cmd_chan) IN
       IF writer # 0
       THEN /\ writer' = 0
            /\ encoders' = [encoders EXCEPT ![writer] = Dropped(@, "stop")]
            /\ resp_chan' = Append(resp_chan,
                  Response("Success", "Recording stopped", cmd.seq))
       ELSE /\ resp_chan' = Append(resp_chan,
                  Response("Error", "No active recording to stop", cmd.seq))
            /\ UNCHANGED <<writer, encoders>>
    /\ cmd_chan' = Tail(cmd_chan)
    /\ UNCHANGED <<current_recording_session, files, n_streams, exited, callback_vars,
                   controller_vars, n_err, cli_vars>>

\* the mutant of CancelRecording: remove_file comes before the take, and a
\* failed deletion answers without taking the encoder out of the slot
CancelRecording_keeps_on_failure ==
    /\ NextCmd("CancelRecording")
    /\ slot_lock = "free"
    /\ LET cmd == Head(cmd_chan) IN
       IF writer # 0
       THEN \E remove_ok \in BOOLEAN :
               IF remove_ok /\ files[cmd.filename] # 0
               THEN /\ writer' = 0
                    /\ encoders' = [encoders EXCEPT ![writer] = Dropped(@, "cancel")]
                    /\ files' = [files EXCEPT ![cmd.filename] = 0]
                    /\ resp_chan' = Append(resp_chan,
                          Response("Success", "Recording cancelled and file deleted", cmd.seq))
               ELSE /\ UNCHANGED <<writer, encoders, files>>
                    /\ resp_chan' = Append(resp_chan,
                          Response("Error", "Failed to delete partial recording", cmd.seq))
       ELSE /\ resp_chan' = Append(resp_chan,
                  Response("Error", "No active recording to cancel", cmd.seq))
            /\ UNCHANGED <<writer, encoders, files>>
    /\ cmd_chan' = Tail(cmd_chan)
    /\ UNCHANGED <<current_recording_session, n_streams, exited, callback_vars,
                   controller_vars, n_err, cli_vars>>

\* thread.rs:256-283
CancelRecording ==
    /\ NextCmd("CancelRecording")
    /\ slot_lock = "free"
    /\ LET cmd == Head(cmd_chan) IN
       IF writer # 0
       THEN /\ writer' = 0
            /\ encoders' = [encoders EXCEPT ![writer] = Dropped(@, "cancel")]
            /\ \E remove_ok \in BOOLEAN :
                  IF remove_ok /\ files[cmd.filename] # 0
                  THEN /\ files' = [files EXCEPT ![cmd.filename] = 0]
                       /\ resp_chan' = Append(resp_chan,
                             Response("Success", "Recording cancelled and file deleted", cmd.seq))
                  ELSE /\ files' = files
                       /\ resp_chan' = Append(resp_chan,
                             Response("Error", "Failed to delete partial recording", cmd.seq))
       ELSE /\ resp_chan' = Append(resp_chan,
                  Response("Error", "No active recording to cancel", cmd.seq))
            /\ UNCHANGED <<writer, encoders, files>>
    /\ cmd_chan' = Tail(cmd_chan)
    /\ UNCHANGED <<current_recording_session, n_streams, exited, callback_vars,
                   controller_vars, n_err, cli_vars>>

\* the mutant of CloseRecordingSession: closing the session also takes the
\* encoder out of the slot and drops it
CloseRecordingSession_finalizes ==
    /\ NextCmd("CloseRecordingSession")
    /\ slot_lock = "free"
    /\ LET cmd == Head(cmd_chan) IN
       IF current_recording_session # <<>>
       THEN /\ current_recording_session' = <<>>
            /\ writer' = 0
            /\ encoders' = IF writer = 0 THEN encoders
                           ELSE [encoders EXCEPT ![writer] = Dropped(@, "close")]
            /\ resp_chan' = Append(resp_chan,
                  Response("Success", "Recording session closed successfully", cmd.seq))
       ELSE /\ resp_chan' = Append(resp_chan,
                  Response("Error", "No active recording session to close", cmd.seq))
            /\ UNCHANGED <<current_recording_session, writer, encoders>>
    /\ cmd_chan' = Tail(cmd_chan)
    /\ UNCHANGED <<files, n_streams, exited, callback_vars, controller_vars, n_err,
                   cli_vars>>

\* the mutant of CloseRecordingSession: with no session to close the arm goes
\* back to rx.recv() without a response
CloseRecordingSession_silent_without_session ==
    /\ NextCmd("CloseRecordingSession")
    /\ LET cmd == Head(cmd_chan) IN
       IF current_recording_session # <<>>
       THEN /\ current_recording_session' = <<>>
            /\ resp_chan' = Append(resp_chan,
                  Response("Success", "Recording session closed successfully", cmd.seq))
       ELSE UNCHANGED <<resp_chan, current_recording_session>>
    /\ cmd_chan' = Tail(cmd_chan)
    /\ UNCHANGED <<writer, encoders, files, n_streams, exited, callback_vars,
                   controller_vars, n_err, cli_vars>>

\* thread.rs:284-295
CloseRecordingSession ==
    /\ NextCmd("CloseRecordingSession")
    /\ LET cmd == Head(cmd_chan) IN
       IF current_recording_session # <<>>
       THEN /\ current_recording_session' = <<>>
            /\ resp_chan' = Append(resp_chan,
                  Response("Success", "Recording session closed successfully", cmd.seq))
       ELSE /\ resp_chan' = Append(resp_chan,
                  Response("Error", "No active recording session to close", cmd.seq))
            /\ UNCHANGED current_recording_session
    /\ cmd_chan' = Tail(cmd_chan)
    /\ UNCHANGED <<writer, encoders, files, n_streams, exited, callback_vars,
                   controller_vars, n_err, cli_vars>>


\* thread.rs:296-305: the acknowledgement, `break`, and the end of the thread,
\* where its locals are dropped: the session with its stream (no callback is
\* invoked any more), and the worker's handle on the slot.  The encoder in the
\* slot is dropped with the slot unless a callback invocation is in flight,
\* whose closure still holds the slot.  Commands left in the channel are
\* never received.
CloseThread ==
    /\ NextCmd("CloseThread")
    /\ resp_chan' = Append(resp_chan,
          Response("Success", "Audio thread exiting...", Head(cmd_chan).seq))
    /\ exited' = TRUE
    /\ current_recording_session' = <<>>
    /\ IF writer # 0 /\ slot_lock = "free"
       THEN /\ writer' = 0
            /\ encoders' = [encoders EXCEPT ![writer] = Dropped(@, "exit")]
       ELSE UNCHANGED <<writer, encoders>>
    /\ cmd_chan' = Tail(cmd_chan)
    /\ UNCHANGED <<files, n_streams, callback_vars, controller_vars, n_err, cli_vars>>

\* What an arm does between taking and releasing the lock of the slot, given
\* the slot it finds and the answer it ends with.  thread.rs:232,
\* `*writer.lock().unwrap() = Some(new_writer)`: the guard is a temporary of
\* the statement, and the assignment drops the value the slot held before it
\* stores the new one.  thread.rs:236-243 and 257-264: the guard is moved into
\* the closure of and_then and released when guard.take() has returned; the
\* drop, remove_file and the send come after.  No other arm locks the slot.
UnderSlotLock(type, slot, answer) ==
    CASE type = "StartRecording" /\ answer = "Recording started" ->
            IF slot # 0 THEN {"drop WavWriter", "store"} ELSE {"store"}
      [] type \in {"StopRecording", "CancelRecording"} -> {"take"}
      [] OTHER -> {}

\* the calls of the worker that block or do file I/O: hound::WavWriter::create,
\* the drop of a WavWriter (it finalizes the file), std::fs::remove_file,
\* response_tx.send and rx.recv
BlockingCalls ==
    {"WavWriter::create", "drop WavWriter", "remove_file", "send", "recv"}

\* thread.rs:70-303, `while let Ok(cmd) = rx.recv() { match cmd { ... } }`:
\* one iteration of the worker's loop
command_loop ==
    \/ EnumerateRecordingDevices
    \/ InitRecordingSession
    \/ StartRecording
    \/ StopRecording
    \/ CancelRecording
    \/ CloseRecordingSession
    \/ CloseThread

----------------------------------------------------------------------------
\* The callbacks of the input stream.  The stream adapter invokes them while
\* the stream built by InitRecordingSession is alive, that is while
\* current_recording_session holds it.

\* the mutant of data_callback: the slot is locked and inspected per sample,
\* inside the loop, instead of once around the loop
data_callback_lock_per_sample ==
    \/ /\ cb_pc = "idle"
       /\ current_recording_session # <<>>
       /\ n_buf < MaxBuffers
       /\ slot_lock = "free"
       /\ n_buf' = n_buf + 1
       /\ cb_buf' = n_buf + 1
       /\ cb_bits' = Head(current_recording_session).bits
       /\ cb_sess' = Head(current_recording_session).id
       /\ cb_pc' = "write"
       /\ cb_idx' = 1
       /\ IF writer = 0
          THEN /\ discarded' = discarded \cup {n_buf + 1}
               /\ UNCHANGED encoders
          ELSE /\ encoders' = [encoders EXCEPT ![writer].delivered =
                                  Append(@, n_buf + 1)]
               /\ UNCHANGED discarded
       /\ UNCHANGED <<slot_lock, cmd_chan, resp_chan, current_recording_session,
                      writer, files, n_streams, exited, n_err, controller_vars,
                   cli_vars>>
    \/ /\ cb_pc = "write"
       /\ encoders' = IF writer = 0 THEN encoders
                      ELSE [encoders EXCEPT ![writer].samples =
                               Append(@, [buf |-> cb_buf, idx |-> cb_idx,
                                          conv |-> Conversion(cb_bits),
                                          sess |-> cb_sess])]
       /\ cb_idx' = cb_idx + 1
       /\ cb_pc' = IF cb_idx = BufLen THEN "idle" ELSE "write"
       /\ UNCHANGED <<slot_lock, cb_buf, cb_bits, cb_sess, n_buf, discarded,
                      cmd_chan, resp_chan, current_recording_session, writer,
                      files, n_streams, exited, n_err, controller_vars,
                   cli_vars>>

\* thread.rs:144-170, the data callback.  First disjunct: the invocation with
\* one buffer, which locks the slot (line 146) and finds it empty (the buffer is
\* dropped and the lock released) or occupied (the loop of line 147 starts,
\* under the lock).  Second disjunct: one iteration of the loop, one
\* write_sample; the lock is released after the last one.
data_callback ==
    \/ /\ cb_pc = "idle"
       /\ current_recording_session # <<>>
       /\ n_buf < MaxBuffers
       /\ slot_lock = "free"
       /\ n_buf' = n_buf + 1
       /\ cb_buf' = n_buf + 1
       /\ cb_bits' = Head(current_recording_session).bits
       /\ cb_sess' = Head(current_recording_session).id
       /\ IF writer = 0
          THEN /\ discarded' = discarded \cup {n_buf + 1}
               /\ UNCHANGED <<slot_lock, cb_pc, cb_idx, encoders>>
          ELSE /\ slot_lock' = "callback"
               /\ cb_pc' = "write"
               /\ cb_idx' = 1
               /\ encoders' = [encoders EXCEPT ![writer].delivered =
                                  Append(@, n_buf + 1)]
               /\ UNCHANGED discarded
       /\ UNCHANGED <<cmd_chan, resp_chan, current_recording_session, writer,
                      files, n_streams, exited, n_err, controller_vars,
                   cli_vars>>
    \/ /\ cb_pc = "write"
       /\ encoders' = IF writer = 0 THEN encoders
                      ELSE [encoders EXCEPT ![writer].samples =
                               Append(@, [buf |-> cb_buf, idx |-> cb_idx,
                                          conv |-> Conversion(cb_bits),
                                          sess |-> cb_sess])]
       /\ cb_idx' = cb_idx + 1
       /\ cb_pc' = IF cb_idx = BufLen THEN "idle" ELSE "write"
       /\ slot_lock' = IF cb_idx = BufLen THEN "free" ELSE slot_lock
       /\ UNCHANGED <<cb_buf, cb_bits, cb_sess, n_buf, discarded, cmd_chan,
                      resp_chan, current_recording_session, writer, files,
                      n_streams, exited, n_err, controller_vars, cli_vars>>

\* thread.rs:171-174, the error callback: it sends on a clone of response_tx
error_callback ==
    /\ current_recording_session # <<>>
    /\ n_err < MaxStreamErrors
    /\ n_err' = n_err + 1
    /\ resp_chan' = Append(resp_chan, Response("Error", "Error in stream", 0))
    /\ UNCHANGED <<cmd_chan, worker_vars, callback_vars, controller_vars, cli_vars>>

----------------------------------------------------------------------------
\* The Session Controller (recorder.rs).  An operation is two actions: the
\* part of with_thread up to rx.recv() (ensure_thread_initialized, the lock of
\* AUDIO_THREAD, the checks of the closure, tx.send), and the part from the
\* response that rx.recv() returns to the end of the closure, where the lock
\* of AUDIO_THREAD is released.

\* history: the operation a caller starts, with the state it starts in (pre):
\* the slot, the session, the tracked target, and whether the worker has
\* handled every command sent before
Called(op, seq, filename) ==
    [op |-> op, seq |-> seq, filename |-> filename,
     pre |-> [writer |-> writer, session |-> current_recording_session,
              current |-> CURRENT_RECORDING, quiet |-> cmd_chan = <<>>]]

\* recorder.rs:46-65 then tx.send(cmd): the caller spawns the worker if there
\* is none, takes the lock of AUDIO_THREAD, sends and blocks in rx.recv()
with_thread_send(c, op, filename, device_name, bits_per_sample) ==
    /\ pc[c] = "idle"
    /\ n_ops < MaxOps
    /\ thread_lock = 0
    /\ AUDIO_THREAD' = TRUE
    /\ n_ops' = n_ops + 1
    /\ IF exited
       THEN \* the receiver is gone: tx.send fails, map_err makes it SendError
            \* and `?` returns it (recorder.rs:69-70, 89-90 and the like)
            /\ last_ret' = [op |-> op, seq |-> n_ops + 1, result |-> "SendError"]
            /\ UNCHANGED <<cmd_chan, thread_lock, call, pc>>
       ELSE /\ thread_lock' = c
            /\ cmd_chan' = Append(cmd_chan,
                  Command(op, n_ops + 1, filename, device_name, bits_per_sample))
            /\ call' = [call EXCEPT ![c] = Called(op, n_ops + 1, filename)]
            /\ pc' = [pc EXCEPT ![c] = "recv"]
            /\ UNCHANGED last_ret
    /\ UNCHANGED <<resp_chan, worker_vars, callback_vars, n_err, CURRENT_RECORDING,
                   cli_vars>>

\* recorder.rs:140 and 166: CURRENT_RECORDING is None, the closure returns
\* Err(NoActiveRecording) before it sends anything
no_active_recording(c, op) ==
    /\ pc[c] = "idle"
    /\ n_ops < MaxOps
    /\ thread_lock = 0
    /\ CURRENT_RECORDING = <<>>
    /\ AUDIO_THREAD' = TRUE
    /\ n_ops' = n_ops + 1
    /\ UNCHANGED call
    /\ last_ret' = [op |-> op, seq |-> n_ops + 1, result |-> "NoActiveRecording"]
    /\ UNCHANGED <<cmd_chan, resp_chan, worker_vars, callback_vars, n_err,
                   thread_lock, CURRENT_RECORDING, pc, cli_vars>>

\* the match on rx.recv() every operation ends with, e.g. recorder.rs:92-97:
\* `expected` is the response kind the operation takes for success
MatchResponse(resp, expected) ==
    CASE resp.kind = expected -> "Ok"
      [] resp.kind = "Error" -> "AudioError"
      [] OTHER -> "Unexpected response"

\* rx.recv() returns the oldest response of the channel to the caller blocked
\* in operation op
Receives(c, op) ==
    /\ pc[c] = "recv"
    /\ call[c].op = op
    /\ resp_chan # <<>>

\* the end of every operation: the response is consumed, the result returned,
\* the lock of AUDIO_THREAD released
Returns(c, result) ==
    /\ resp_chan' = Tail(resp_chan)
    /\ last_ret' = [op |-> call[c].op, seq |-> call[c].seq, result |-> result]
    /\ pc' = [pc EXCEPT ![c] = "idle"]
    /\ thread_lock' = 0
    /\ UNCHANGED <<cmd_chan, current_recording_session, writer, encoders,
                   n_streams, exited, callback_vars, n_err, AUDIO_THREAD, n_ops,
                   cli_vars>>
    /\ call' = [call EXCEPT ![c] = NoCall]

\* recorder.rs:67-85
enumerate_recording_devices(c) ==
    \/ with_thread_send(c, "EnumerateRecordingDevices", "", "", 0)
    \/ /\ Receives(c, "EnumerateRecordingDevices")
       /\ Returns(c, MatchResponse(Head(resp_chan), "RecordingDeviceList"))
       /\ UNCHANGED <<CURRENT_RECORDING, files>>

\* recorder.rs:87-99
init_recording_session(c, settings) ==
    \/ with_thread_send(c, "InitRecordingSession", "", settings.device_name,
                        settings.bits_per_sample)
    \/ /\ Receives(c, "InitRecordingSession")
       /\ Returns(c, MatchResponse(Head(resp_chan), "Success"))
       /\ UNCHANGED <<CURRENT_RECORDING, files>>

\* recorder.rs:101-116
close_recording_session(c) ==
    \/ with_thread_send(c, "CloseRecordingSession", "", "", 0)
    \/ /\ Receives(c, "CloseRecordingSession")
       /\ LET result == MatchResponse(Head(resp_chan), "Success") IN
          /\ Returns(c, result)
          /\ CURRENT_RECORDING' = IF result = "Ok" THEN <<>> ELSE CURRENT_RECORDING
       /\ UNCHANGED files

\* recorder.rs:118-135
start_recording(c, recording_id) ==
    \/ with_thread_send(c, "StartRecording", Filename(recording_id), "", 0)
    \/ /\ Receives(c, "StartRecording")
       /\ call[c].filename = Filename(recording_id)
       /\ LET result == MatchResponse(Head(resp_chan), "Success") IN
          /\ Returns(c, result)
          /\ CURRENT_RECORDING' = IF result = "Ok" THEN <<call[c].filename>>
                                  ELSE CURRENT_RECORDING
       /\ UNCHANGED files

\* recorder.rs:137-161
stop_recording(c) ==
    \/ no_active_recording(c, "StopRecording")
    \/ /\ CURRENT_RECORDING # <<>>
       /\ with_thread_send(c, "StopRecording", Head(CURRENT_RECORDING), "", 0)
    \/ /\ Receives(c, "StopRecording")
       /\ LET matched == MatchResponse(Head(resp_chan), "Success")
              filename == call[c].filename
          IN IF matched = "Ok"
             THEN IF files[filename] = 0
                  THEN \* std::fs::read fails: `?` returns before the cleanup
                       /\ Returns(c, "IoError")
                       /\ UNCHANGED <<CURRENT_RECORDING, files>>
                  ELSE /\ Returns(c, "Ok")
                       /\ files' = [files EXCEPT ![filename] = 0]
                       /\ CURRENT_RECORDING' = <<>>
             ELSE /\ Returns(c, matched)
                  /\ UNCHANGED <<CURRENT_RECORDING, files>>

\* recorder.rs:163-181
cancel_recording(c) ==
    \/ no_active_recording(c, "CancelRecording")
    \/ /\ CURRENT_RECORDING # <<>>
       /\ with_thread_send(c, "CancelRecording", Head(CURRENT_RECORDING), "", 0)
    \/ /\ Receives(c, "CancelRecording")
       /\ LET result == MatchResponse(Head(resp_chan), "Success") IN
          /\ Returns(c, result)
          /\ CURRENT_RECORDING' = IF result = "Ok" THEN <<>> ELSE CURRENT_RECORDING
       /\ UNCHANGED files

\* thread.rs:13-16, the UserRecordingSessionConfig values a caller passes
Settings == [device_name : DeviceNames, bits_per_sample : BitDepths]


----------------------------------------------------------------------------
Next ==
    \/ EnumerateRecordingDevices
    \/ InitRecordingSession
    \/ StartRecording
    \/ StopRecording
    \/ CancelRecording
    \/ CloseRecordingSession
    \/ data_callback
    \/ error_callback
    \/ \E c \in Callers : enumerate_recording_devices(c)
    \/ \E c \in Callers, settings \in Settings : init_recording_session(c, settings)
    \/ \E c \in Callers : close_recording_session(c)
    \/ \E c \in Callers, recording_id \in RecordingIds : start_recording(c, recording_id)
    \/ \E c \in Callers : stop_recording(c)
    \/ \E c \in Callers : cancel_recording(c)

Spec == Init /\ [][Next]_vars

----------------------------------------------------------------------------
\* The controller with the closeThread operation of the design.  recorder.rs
\* has no function that sends AudioCommand::CloseThread, so under Spec the
\* worker never leaves its loop.  close_thread is the missing caller, built
\* like the other operations on with_thread: it sends the command and returns
\* on the response.

close_thread(c) ==
    \/ with_thread_send(c, "CloseThread", "", "", 0)
    \/ /\ Receives(c, "CloseThread")
       /\ Returns(c, MatchResponse(Head(resp_chan), "Success"))
       /\ UNCHANGED <<CURRENT_RECORDING, files>>

NextShutdown ==
    \/ Next
    \/ CloseThread
    \/ \E c \in Callers : close_thread(c)

SpecShutdown == Init /\ [][NextShutdown]_vars

\* The controller called from several threads at once.  Every function of
\* recorder.rs is a free function over the statics AUDIO_THREAD and
\* CURRENT_RECORDING, so any thread of the process may call any of them at
\* any time; the lock of AUDIO_THREAD (thread_lock) is what orders them.
Threads == {1, 2}

NextCallers ==
    \/ EnumerateRecordingDevices
    \/ InitRecordingSession
    \/ StartRecording
    \/ StopRecording
    \/ CancelRecording
    \/ CloseRecordingSession
    \/ data_callback
    \/ error_callback
    \/ \E c \in Threads : enumerate_recording_devices(c)
    \/ \E c \in Threads, settings \in Settings : init_recording_session(c, settings)
    \/ \E c \in Threads : close_recording_session(c)
    \/ \E c \in Threads, recording_id \in RecordingIds : start_recording(c, recording_id)
    \/ \E c \in Threads : stop_recording(c)
    \/ \E c \in Threads : cancel_recording(c)

SpecCallers == InitWith(Threads) /\ [][NextCallers]_vars

\* The same system under fair scheduling.  The worker is a thread of its own
\* blocked in rx.recv(): it takes a queued command, and gets the slot's lock
\* however often the callback takes it (SF).  A callback invocation that has
\* started its loop runs to the end of the buffer.  A caller blocked in
\* rx.recv() returns once the channel holds a response.  Nothing obliges a
\* caller to call, the adapter to deliver a buffer or the stream to fail.
Return(c) == pc[c] = "recv" /\ NextShutdown /\ pc'[c] = "idle"

Fairness ==
    /\ SF_vars(command_loop)
    /\ WF_vars(cb_pc = "write" /\ data_callback)
    /\ \A c \in Callers : WF_vars(Return(c))

SpecLive == Init /\ [][NextShutdown]_vars /\ Fairness

----------------------------------------------------------------------------
\* The Audio Worker on its own, for what thread.rs promises whoever holds the
\* Sender<AudioCommand> that spawn_audio_thread returns (thread.rs:57-60, 308).
\* The client sends any command, with any argument, once the worker has
\* handled the previous one and the client has read the responses.  The
\* worker cannot tell a client that sends earlier from this one, since it
\* handles the commands one by one in the order sent.

ClientCommands ==
    [type : {"EnumerateRecordingDevices", "CloseRecordingSession", "StopRecording",
             "CloseThread"},
     filename : {""}, device_name : {""}, bits_per_sample : {0}]
    \cup [type : {"InitRecordingSession"}, filename : {""},
          device_name : DeviceNames, bits_per_sample : BitDepths]
    \cup [type : {"StartRecording", "CancelRecording"}, filename : Paths,
          device_name : {""}, bits_per_sample : {0}]

client_send ==
    /\ n_ops < MaxCommands
    /\ ~exited
    /\ cmd_chan = <<>>
    /\ \E m \in ClientCommands :
          cmd_chan' = <<Command(m.type, n_ops + 1, m.filename, m.device_name,
                                m.bits_per_sample)>>
    /\ n_ops' = n_ops + 1
    /\ AUDIO_THREAD' = TRUE
    /\ resp_chan' = <<>>
    /\ UNCHANGED <<worker_vars, callback_vars, n_err, thread_lock,
                   CURRENT_RECORDING, pc, call, last_ret, cli_vars>>

NextWorker ==
    \/ EnumerateRecordingDevices
    \/ InitRecordingSession
    \/ StartRecording
    \/ StopRecording
    \/ CancelRecording
    \/ CloseRecordingSession
    \/ CloseThread
    \/ data_callback
    \/ error_callback
    \/ client_send

SpecWorker == Init /\ [][NextWorker]_vars

----------------------------------------------------------------------------
\* The CLI prototype (main.rs): a main thread that reads input lines and an
\* audio thread with a command loop of its own.  It shares no state with
\* recorder.rs and thread.rs.

\* the audio thread can still receive: its rx exists
RxAlive == audio_pc \in {"starting", "running"}

\* tx.send(..).map_err(..)? in an arm of main: the commands are queued, or,
\* when the receiver is gone, main returns the error
SendOrReturn(cmds, then_pc) ==
    IF RxAlive
    THEN /\ cli_rx' = cli_rx \o cmds
         /\ main_pc' = then_pc
    ELSE /\ main_pc' = "returned"
         /\ UNCHANGED cli_rx

ReadLine ==
    /\ main_pc = "read_line"
    /\ n_lines < MaxLines
    /\ n_lines' = n_lines + 1

audio_thread_vars == <<stream_option, cli_writer, cli_encoders, cli_files, cli_n_buf>>

\* main.rs:167-183, `init`: spawn_audio_thread, store the sender, send
\* InitStream.  The thread may already have ended (no input device, lines
\* 27-31) when main sends.
main_init ==
    /\ ReadLine
    /\ IF audio_tx # <<>>
       THEN UNCHANGED <<main_pc, audio_pc, audio_tx, cli_rx>>
       ELSE /\ audio_tx' = <<"tx">>
            /\ \E ended_early \in BOOLEAN :
                  IF ended_early
                  THEN /\ audio_pc' = "exited"
                       /\ main_pc' = "returned"
                       /\ UNCHANGED cli_rx
                  ELSE /\ audio_pc' = "starting"
                       /\ cli_rx' = <<CliCommand("InitStream", "", 0, "init")>>
                       /\ UNCHANGED main_pc
    /\ UNCHANGED <<current_recording_filename, audio_thread_vars, recorder_vars>>

\* The second audio_tx.lock() of main.rs:188 and 238, made while the guard of
\* the `if let` scrutinee (185, 228) is alive: locking a std Mutex the thread
\* already holds never returns; it deadlocks or panics.
Relock == {"blocked", "panicked"}

\* main.rs:184-192, `drop`
main_drop ==
    /\ ReadLine
    /\ IF audio_tx # <<>>
       THEN \E outcome \in Relock :
               SendOrReturn(<<CliCommand("DropStream", "", 0, "drop")>>, outcome)
       ELSE UNCHANGED <<main_pc, cli_rx>>
    /\ UNCHANGED <<audio_pc, audio_tx, current_recording_filename,
                   audio_thread_vars, recorder_vars>>

\* main.rs:193-226, `start [bits_per_sample] [id]`
main_start(bits_arg, id_arg) ==
    /\ ReadLine
    /\ IF audio_tx # <<>>
       THEN /\ current_recording_filename' = <<CliFilename(id_arg)>>
            /\ SendOrReturn(<<CliCommand("StartRecording", CliFilename(id_arg),
                                         ParseBits(bits_arg), "start")>>, "read_line")
       ELSE UNCHANGED <<main_pc, cli_rx, current_recording_filename>>
    /\ UNCHANGED <<audio_pc, audio_tx, audio_thread_vars, recorder_vars>>

\* main.rs:227-242, `stop`
main_stop ==
    /\ ReadLine
    /\ IF audio_tx # <<>>
       THEN \E outcome \in Relock :
               SendOrReturn(<<CliCommand("StopRecording", "", 0, "stop"),
                              CliCommand("DropStream", "", 0, "stop"),
                              CliCommand("Exit", "", 0, "stop")>>, outcome)
       ELSE UNCHANGED <<main_pc, cli_rx>>
    /\ UNCHANGED <<audio_pc, audio_tx, current_recording_filename,
                   audio_thread_vars, recorder_vars>>

\* main.rs:243-252, `cancel`: current_recording_filename.lock().unwrap()
\* .take().unwrap() panics when no file name is tracked
main_cancel ==
    /\ ReadLine
    /\ IF audio_tx # <<>>
       THEN IF current_recording_filename = <<>>
            THEN /\ main_pc' = "panicked"
                 /\ UNCHANGED <<cli_rx, current_recording_filename>>
            ELSE /\ current_recording_filename' = <<>>
                 /\ SendOrReturn(<<CliCommand("CancelRecording",
                                              Head(current_recording_filename), 0,
                                              "cancel")>>, "read_line")
       ELSE UNCHANGED <<main_pc, cli_rx, current_recording_filename>>
    /\ UNCHANGED <<audio_pc, audio_tx, audio_thread_vars, recorder_vars>>

\* main.rs:253-266, `exit`: the sender is taken out of audio_tx, the three
\* commands sent, and main leaves its loop and returns
main_exit ==
    /\ ReadLine
    /\ audio_tx' = <<>>
    /\ IF audio_tx # <<>>
       THEN SendOrReturn(<<CliCommand("StopRecording", "", 0, "exit"),
                           CliCommand("DropStream", "", 0, "exit"),
                           CliCommand("Exit", "", 0, "exit")>>, "returned")
       ELSE /\ main_pc' = "returned"
            /\ UNCHANGED cli_rx
    /\ UNCHANGED <<audio_pc, current_recording_filename, audio_thread_vars,
                   recorder_vars>>

\* main.rs:267-269, any other line
main_unknown ==
    /\ ReadLine
    /\ UNCHANGED <<main_pc, audio_pc, audio_tx, current_recording_filename, cli_rx,
                   audio_thread_vars, recorder_vars>>

\* main.rs:25-37, the start of the audio thread: without an input device or
\* a default config the closure returns and the receiver is dropped
audio_thread_start ==
    /\ audio_pc = "starting"
    /\ \E device_ok \in BOOLEAN :
          audio_pc' = IF device_ok THEN "running" ELSE "exited"
    /\ UNCHANGED <<main_pc, audio_tx, current_recording_filename, cli_rx,
                   audio_thread_vars, n_lines, recorder_vars>>

\* main.rs:39-40, rx.recv() of the audio thread returns the oldest command
CliNextCmd(type) ==
    /\ audio_pc = "running"
    /\ cli_rx # <<>>
    /\ Head(cli_rx).type = type

main_vars == <<main_pc, audio_tx, current_recording_filename, n_lines>>

\* main.rs:41-65
cli_InitStream ==
    /\ CliNextCmd("InitStream")
    /\ cli_rx' = Tail(cli_rx)
    /\ IF stream_option = <<>>
       THEN \E build_ok \in BOOLEAN :
               stream_option' = IF build_ok THEN <<"stream">> ELSE <<>>
       ELSE UNCHANGED stream_option
    /\ UNCHANGED <<audio_pc, cli_writer, cli_encoders, cli_files, cli_n_buf,
                   main_vars, recorder_vars>>

\* main.rs:66-73
cli_DropStream ==
    /\ CliNextCmd("DropStream")
    /\ cli_rx' = Tail(cli_rx)
    /\ stream_option' = <<>>
    /\ UNCHANGED <<audio_pc, cli_writer, cli_encoders, cli_files, cli_n_buf,
                   main_vars, recorder_vars>>

\* drop or finalize of a WavWriter of the prototype
CliEnded(enc, how) == [enc EXCEPT !.ended = how]

\* main.rs:74-110
cli_StartRecording ==
    /\ CliNextCmd("StartRecording")
    /\ cli_rx' = Tail(cli_rx)
    /\ LET cmd == Head(cli_rx) IN
       IF stream_option = <<>>
       THEN UNCHANGED <<cli_writer, cli_encoders, cli_files>>
       ELSE \E create_ok \in BOOLEAN :
               IF create_ok
               THEN LET new == Len(cli_encoders) + 1
                        old == IF cli_writer = 0 THEN cli_encoders
                               ELSE [cli_encoders EXCEPT
                                        ![cli_writer] = CliEnded(@, "replaced")]
                    IN /\ cli_encoders' = Append(old,
                             [path |-> cmd.filename, bits |-> cmd.bits_per_sample,
                              samples |-> 0, ended |-> "no"])
                       /\ cli_files' = [cli_files EXCEPT ![cmd.filename] = new]
                       /\ cli_writer' = new
               ELSE UNCHANGED <<cli_writer, cli_encoders, cli_files>>
    /\ UNCHANGED <<audio_pc, stream_option, cli_n_buf, main_vars, recorder_vars>>

\* main.rs:111-118
cli_StopRecording ==
    /\ CliNextCmd("StopRecording")
    /\ cli_rx' = Tail(cli_rx)
    /\ IF cli_writer # 0
       THEN /\ cli_writer' = 0
            /\ cli_encoders' = [cli_encoders EXCEPT
                                   ![cli_writer] = CliEnded(@, "finalize")]
       ELSE UNCHANGED <<cli_writer, cli_encoders>>
    /\ UNCHANGED <<audio_pc, stream_option, cli_files, cli_n_buf, main_vars,
                   recorder_vars>>

\* main.rs:119-129
cli_CancelRecording ==
    /\ CliNextCmd("CancelRecording")
    /\ cli_rx' = Tail(cli_rx)
    /\ LET cmd == Head(cli_rx) IN
       IF cli_writer # 0
       THEN /\ cli_writer' = 0
            /\ cli_encoders' = [cli_encoders EXCEPT
                                   ![cli_writer] = CliEnded(@, "cancel")]
            /\ \E remove_ok \in BOOLEAN :
                  cli_files' = IF remove_ok THEN [cli_files EXCEPT ![cmd.filename] = 0]
                               ELSE cli_files
       ELSE UNCHANGED <<cli_writer, cli_encoders, cli_files>>
    /\ UNCHANGED <<audio_pc, stream_option, cli_n_buf, main_vars, recorder_vars>>

\* main.rs:130-137, Exit: `break`, and the end of the thread, where its
\* locals are dropped: the stream and, with the slot, the encoder in it
cli_Exit ==
    /\ CliNextCmd("Exit")
    /\ cli_rx' = Tail(cli_rx)
    /\ audio_pc' = "exited"
    /\ stream_option' = <<>>
    /\ IF cli_writer # 0
       THEN /\ cli_writer' = 0
            /\ cli_encoders' = [cli_encoders EXCEPT
                                   ![cli_writer] = CliEnded(@, "thread end")]
       ELSE UNCHANGED <<cli_writer, cli_encoders>>
    /\ UNCHANGED <<cli_files, cli_n_buf, main_vars, recorder_vars>>

\* main.rs:46-52, the data callback of the prototype: one buffer, written
\* sample by sample as f32 under the lock of the slot
cli_data_callback ==
    /\ audio_pc = "running"
    /\ stream_option # <<>>
    /\ cli_n_buf < MaxBuffers
    /\ cli_n_buf' = cli_n_buf + 1
    /\ cli_encoders' = IF cli_writer = 0 THEN cli_encoders
                       ELSE [cli_encoders EXCEPT ![cli_writer].samples = @ + BufLen]
    /\ UNCHANGED <<audio_pc, cli_rx, stream_option, cli_writer, cli_files, main_vars,
                   recorder_vars>>

\* main.rs:143, 273: main is the process.  When main has returned, or has
\* panicked, the process ends, and the audio thread ends with it wherever it
\* is: nothing joins it.
process_exit ==
    /\ main_pc \in {"returned", "panicked"}
    /\ RxAlive
    /\ audio_pc' = "killed"
    /\ UNCHANGED <<cli_rx, audio_thread_vars, main_vars, recorder_vars>>

NextCli ==
    \/ main_init
    \/ main_drop
    \/ \E bits_arg \in CliBitArgs, id_arg \in CliIdArgs : main_start(bits_arg, id_arg)
    \/ main_stop
    \/ main_cancel
    \/ main_exit
    \/ main_unknown
    \/ audio_thread_start
    \/ cli_InitStream
    \/ cli_DropStream
    \/ cli_StartRecording
    \/ cli_StopRecording
    \/ cli_CancelRecording
    \/ cli_Exit
    \/ cli_data_callback
    \/ process_exit

SpecCli == Init /\ [][NextCli]_vars

----------------------------------------------------------------------------
\* Vocabulary of the properties

\* this step is the worker handling the command at the head of the queue
Handles(type) == NextCmd(type) /\ cmd_chan' = Tail(cmd_chan)

\* this step is caller c returning from operation op on a response
ReturnsFrom(c, op) == pc[c] = "recv" /\ call[c].op = op /\ pc'[c] = "idle"

\* the worker has answered command seq with an Error carrying one of msgs
AnsweredError(seq, msgs) ==
    \E i \in 1..Len(resp_chan) :
       /\ resp_chan[i].for = seq
       /\ resp_chan[i].kind = "Error"
       /\ resp_chan[i].msg \in msgs

\* the encoders taken out of the slot by StopRecording or CancelRecording
Taken == {e \in 1..Len(encoders) : encoders[e].ended \in {"stop", "cancel"}}

\* how many samples of buffer b encoder e holds
SamplesFrom(e, b) ==
    Cardinality({i \in 1..Len(encoders[e].samples) : encoders[e].samples[i].buf = b})

\* the samples of encoder e, as <<buffer, index>>, in the order written
Written(e) ==
    [i \in 1..Len(encoders[e].samples) |->
        <<encoders[e].samples[i].buf, encoders[e].samples[i].idx>>]

\* the samples of a sequence of buffers, in order
RECURSIVE SamplesOf(_)
SamplesOf(bufs) ==
    IF bufs = <<>> THEN <<>>
    ELSE BufferSamples(Head(bufs)) \o SamplesOf(Tail(bufs))

----------------------------------------------------------------------------
\* C1: a StartRecording handled while the slot holds an encoder is answered
\* with an Error and leaves that encoder in the slot, open and untouched; the
\* start_recording that returns on it leaves CURRENT_RECORDING as it was.
C1_SecondStartRefused ==
    [][ /\ (Handles("StartRecording") /\ writer # 0) =>
              /\ Last(resp_chan').kind = "Error"
              /\ writer' = writer
              /\ encoders'[writer] = encoders[writer]
        /\ \A c \in Callers :
              (ReturnsFrom(c, "StartRecording") /\ call[c].pre.writer # 0
                  /\ call[c].pre.quiet) =>
                 CURRENT_RECORDING' = CURRENT_RECORDING ]_vars

\* C2: the worker sends exactly one response for every command it handles
\* (the response is sent within the iteration of the loop that handles the
\* command, so before the next command is dequeued).
C2_OneResponsePerCommand ==
    [][ (AUDIO_THREAD /\ cmd_chan # <<>> /\ cmd_chan' = Tail(cmd_chan)) =>
           Len(resp_chan') = Len(resp_chan) + 1 ]_vars

\* C3: the response an operation returns on is the one the worker sent for the
\* command of this operation.
C3_MatchingResponse ==
    [][ \A c \in Callers :
           (pc[c] = "recv" /\ pc'[c] = "idle") =>
              Head(resp_chan).for = call[c].seq ]_vars

\* C4: an encoder that StopRecording or CancelRecording took out of the slot
\* holds, of every buffer, all the samples or none, and nothing is written to
\* it once it is taken.
C4_NoTornWrite ==
    /\ [](\A e \in Taken : \A b \in 1..n_buf : SamplesFrom(e, b) \in {0, BufLen})
    /\ [][ \A e \in Taken : encoders'[e].samples = encoders[e].samples ]_vars

\* C4 witness: an encoder was taken after a whole buffer was written to it, and
\* a later buffer, delivered after the removal, is in no encoder.
C4_Witness ==
    \E e \in Taken :
       /\ Len(encoders[e].samples) = BufLen
       /\ \E b \in discarded : b > encoders[e].samples[1].buf

\* C5: a buffer delivered while the slot is empty is written to no encoder,
\* ever, and its delivery changes no shared state (the slot and its lock, the
\* encoders, the files, the channels, the session).
C5_EmptySlotDiscards ==
    /\ [](\A e \in 1..Len(encoders) : \A b \in discarded : SamplesFrom(e, b) = 0)
    /\ [][ (n_buf' # n_buf /\ writer = 0) =>
              UNCHANGED <<writer, slot_lock, encoders, files, cmd_chan, resp_chan,
                          current_recording_session>> ]_vars

\* C5 witness: a buffer was discarded, and an encoder published afterwards has
\* received a later buffer.
C5_Witness ==
    \E e \in 1..Len(encoders) : \E b \in discarded :
       /\ encoders[e].samples # <<>>
       /\ encoders[e].samples[1].buf > b

C7_SecondInitRefused ==
    [][ (Handles("InitRecordingSession") /\ current_recording_session # <<>>) =>
           /\ Last(resp_chan').kind = "Error"
           /\ Last(resp_chan').msg = "Stream already initialized"
           /\ n_streams' = n_streams
           /\ current_recording_session' = current_recording_session ]_vars

\* C7 witness: a second InitRecordingSession has been refused.
C7_Witness ==
    /\ current_recording_session # <<>>
    /\ resp_chan # <<>>
    /\ Last(resp_chan).msg = "Stream already initialized"

\* C8: a start_recording whose command the worker refuses (no session, or the
\* encoder cannot be created) returns an error and leaves the session, the
\* slot and CURRENT_RECORDING as they were before the call.
C8_FailedStartChangesNothing ==
    [][ /\ (Handles("StartRecording") /\ Last(resp_chan').kind = "Error") =>
              UNCHANGED <<current_recording_session, writer, encoders>>
        /\ \A c \in Callers :
              (ReturnsFrom(c, "StartRecording")
                  /\ AnsweredError(call[c].seq,
                        {"Recording session not initialized",
                         "Failed to create WAV writer"})) =>
                 /\ last_ret'.result # "Ok"
                 /\ CURRENT_RECORDING' = call[c].pre.current ]_vars

\* C9: stop_recording or cancel_recording called when the slot is empty fails
\* and alters nothing; the worker answers StopRecording and CancelRecording on
\* an empty slot with an Error.
C9_NoActiveRecordingChangesNothing ==
    [][ /\ ((Handles("StopRecording") \/ Handles("CancelRecording")) /\ writer = 0) =>
              /\ Last(resp_chan').kind = "Error"
              /\ UNCHANGED <<current_recording_session, writer, encoders, files>>
        /\ \A c \in Callers : \A op \in {"StopRecording", "CancelRecording"} :
              (ReturnsFrom(c, op) /\ call[c].pre.writer = 0 /\ call[c].pre.quiet) =>
                 /\ last_ret'.result # "Ok"
                 /\ CURRENT_RECORDING' = call[c].pre.current
                 /\ files' = files
                 /\ writer' = 0
                 /\ current_recording_session' = call[c].pre.session ]_vars

\* C10: when cancel_recording returns Ok there is no file at the target path,
\* the slot is empty, CURRENT_RECORDING is None and the session still exists.
C10_CancelCleansUp ==
    [][ \A c \in Callers :
           (ReturnsFrom(c, "CancelRecording") /\ last_ret'.result = "Ok") =>
              /\ files'[call[c].filename] = 0
              /\ writer' = 0
              /\ CURRENT_RECORDING' = <<>>
              /\ current_recording_session' # <<>> ]_vars

\* C11: when CancelRecording finds an encoder in the slot and the deletion of
\* the file fails (the files are left as they were), the worker answers this
\* command with the deletion error, and the transition has happened all the
\* same: the slot is empty, the encoder taken out of it is closed, and the
\* session is as it was (Initialized when the command came during a Recording).
C11_CancelDeleteFailure ==
    [][ (Handles("CancelRecording") /\ writer # 0 /\ files' = files) =>
           /\ Last(resp_chan') =
                 Response("Error", "Failed to delete partial recording",
                          Head(cmd_chan).seq)
           /\ writer' = 0
           /\ encoders' = [encoders EXCEPT ![writer] = Dropped(@, "cancel")]
           /\ current_recording_session' = current_recording_session ]_vars

\* a Recording was cancelled, the deletion failed: the worker is Initialized
\* with an empty slot, the file of the cancelled encoder is still there
C11_Witness ==
    /\ current_recording_session # <<>>
    /\ writer = 0
    /\ resp_chan # <<>>
    /\ Last(resp_chan).msg = "Failed to delete partial recording"
    /\ \E e \in 1..Len(encoders) :
          encoders[e].ended = "cancel" /\ files[encoders[e].path] = e

\* C12: CloseRecordingSession handled during a Recording (a session, and an
\* encoder in the slot) answers Success, destroys the stream (the worker is
\* Idle) and leaves the slot and every encoder exactly as they were: the
\* encoder of the Recording is neither dropped nor taken out of the slot.
C12_CloseLeavesEncoder ==
    [][ (Handles("CloseRecordingSession") /\ current_recording_session # <<>>
         /\ writer # 0) =>
           /\ current_recording_session' = <<>>
           /\ Last(resp_chan') =
                 Response("Success", "Recording session closed successfully",
                          Head(cmd_chan).seq)
           /\ writer' = writer
           /\ encoders' = encoders
           /\ files' = files ]_vars

\* the session was closed during a Recording: the worker is Idle, the open
\* encoder is still in the slot
C12_Witness ==
    /\ current_recording_session = <<>>
    /\ writer # 0
    /\ ~encoders[writer].closed
    /\ resp_chan # <<>>
    /\ Last(resp_chan).msg = "Recording session closed successfully"

\* C13: init_recording_session with a bit depth the worker does not support
\* fails in the controller: no InitRecordingSession command carrying such a
\* depth is ever on the command queue (so the worker never looks up a device
\* or touches a stream for it).
C13_UnsupportedDepthNeverQueued ==
    \A i \in 1..Len(cmd_chan) :
       cmd_chan[i].type = "InitRecordingSession" =>
          SampleFormat(cmd_chan[i].bits_per_sample) # "Unsupported"

\* C14: a command whose processing fails never stops the worker.  A step of
\* the loop that answers Error leaves the worker running; a running worker
\* with a command queued can always take it (once the callback has released
\* the slot); and the worker leaves its loop on no step but the one that
\* handles CloseThread.
C14_ErrorsNeverStopWorker ==
    /\ [][ (\E type \in {m.type : m \in ClientCommands} :
               Handles(type) /\ Last(resp_chan').kind = "Error") => ~exited' ]_vars
    /\ [] ((AUDIO_THREAD /\ ~exited /\ cmd_chan # <<>> /\ slot_lock = "free")
              => ENABLED command_loop)
    /\ [][ (~exited /\ exited') => Handles("CloseThread") ]_vars

\* a cancel was answered with the deletion error (its file is still there),
\* and the worker, still running, has since created another encoder for a
\* later StartRecording
C14_Witness ==
    /\ ~exited
    /\ \E e \in 1..Len(encoders) :
          /\ encoders[e].ended = "cancel"
          /\ files[encoders[e].path] = e
          /\ Len(encoders) > e

\* C15: CloseThread is acknowledged from any state and is terminal.  The step
\* that handles it answers Success and ends the worker; once the worker has
\* ended no command leaves the queue and the worker's state stays as it is;
\* and every controller operation called afterwards that gets as far as
\* sending its command returns ThreadNotInitialized.
C15_CloseThreadTerminal ==
    /\ [][ Handles("CloseThread") =>
             /\ exited'
             /\ Last(resp_chan') =
                   Response("Success", "Audio thread exiting...", Head(cmd_chan).seq) ]_vars
    /\ [][ exited =>
             /\ Len(cmd_chan') >= Len(cmd_chan)
             /\ <<current_recording_session, writer, n_streams, exited>>' =
                   <<current_recording_session, writer, n_streams, exited>> ]_vars
    /\ [][ (exited /\ n_ops' = n_ops + 1
           /\ last_ret'.result # "NoActiveRecording") =>
             /\ last_ret'.seq = n_ops'
             /\ last_ret'.result = "ThreadNotInitialized" ]_vars

\* C16: close_recording_session is idempotent.  Called when no session exists
\* and the worker has handled everything sent before, it changes nothing:
\* when it returns the worker is still Idle, and the slot and
\* CURRENT_RECORDING are what they were at the call.
C16_CloseWithoutSessionChangesNothing ==
    [][ \A c \in Callers :
          (ReturnsFrom(c, "CloseRecordingSession")
           /\ call[c].pre.session = <<>> /\ call[c].pre.quiet) =>
             /\ current_recording_session' = <<>>
             /\ writer' = call[c].pre.writer
             /\ CURRENT_RECORDING' = call[c].pre.current ]_vars

\* C17: every controller operation returns.  Under fair scheduling of the
\* worker, the callback and the caller, a caller blocked in rx.recv() gets a
\* response and returns, whatever the worker's state (Idle, Initialized,
\* Recording, exited) when it called; and what it returns is Ok or one of
\* the errors of RecorderError.
C17_EveryOperationReturns ==
    /\ \A c \in Callers : (pc[c] = "recv") ~> (pc[c] = "idle")
    /\ [] (last_ret.result \in {"none", "Ok", "AudioError", "Unexpected response",
                                "IoError", "NoActiveRecording", "SendError"})

\* an operation called after the worker left its loop has returned; the
\* worker was Recording when CloseThread reached it
C17_Witness ==
    /\ exited
    /\ pc = [c \in Callers |-> "idle"]
    /\ last_ret.seq = n_ops
    /\ last_ret.result = "SendError"
    /\ \E e \in 1..Len(encoders) : encoders[e].ended = "exit"

\* C18: every sample an encoder holds was written through the conversion of
\* that encoder's own bit depth and sample format (f32 for 32-bit float, i16
\* for 16-bit int, i24 for 24-bit int), whatever sequence of init, start,
\* stop, cancel and close put the encoder in the slot.
C18_ConversionMatchesEncoder ==
    \A e \in 1..Len(encoders) :
       \A i \in 1..Len(encoders[e].samples) :
          encoders[e].samples[i].conv = Conversion(encoders[e].bits)

\* C19: when stop_recording returns Ok the Recording is over on both sides:
\* the slot is empty and the session Initialized, the bytes were read from a
\* file whose encoder had been finalized, the file is removed, and
\* CURRENT_RECORDING is None.
C19_StopSuccessEndsRecording ==
    [][ \A c \in Callers :
          (ReturnsFrom(c, "StopRecording") /\ last_ret'.result = "Ok") =>
             /\ writer' = 0
             /\ current_recording_session' # <<>>
             /\ files[call[c].filename] # 0
             /\ encoders[files[call[c].filename]].closed
             /\ files'[call[c].filename] = 0
             /\ CURRENT_RECORDING' = <<>> ]_vars

\* C20: the worker never holds the lock of the slot across a blocking call:
\* in every step of the loop, what the arm does under the lock is the take
\* or the store and nothing that creates, finalizes, drops or deletes a file,
\* sends a response or waits on the queue.
C20_NoBlockingCallUnderSlotLock ==
    [][ \A type \in {m.type : m \in ClientCommands} :
          Handles(type) =>
             UnderSlotLock(type, writer, Last(resp_chan').msg)
                \cap BlockingCalls = {} ]_vars

\* C21: an InitRecordingSession that fails while the worker is Idle, for any
\* of its reasons (device enumeration error, device not found, config query
\* error, unsupported bit depth, stream build failure, stream play failure),
\* leaves the worker Idle, with no session and so no stream whose callbacks
\* run; and an InitRecordingSession that reaches an Idle worker is never
\* refused as already initialized.
C21_FailedInitLeavesIdle ==
    [][ (Handles("InitRecordingSession") /\ current_recording_session = <<>>) =>
           /\ Last(resp_chan').msg # "Stream already initialized"
           /\ Last(resp_chan').kind = "Error" =>
                 /\ current_recording_session' = <<>>
                 /\ Last(resp_chan').msg \in
                       {"input_devices failed", "Device not found",
                        "default_input_config failed", "Unsupported bits per sample",
                        "Failed to build stream", "Failed to start stream"} ]_vars

\* the first command was an InitRecordingSession that built a stream and
\* failed to start it; the second command, an InitRecordingSession again,
\* succeeded with the second stream
C21_Witness ==
    /\ n_ops = 2
    /\ n_streams = 2
    /\ current_recording_session # <<>>
    /\ Head(current_recording_session).id = 2
    /\ resp_chan # <<>>
    /\ Last(resp_chan).msg = "Recording session initialized"

\* C22: whenever no controller operation is in progress (no caller is inside
\* an operation, both channels are empty), CURRENT_RECORDING mirrors the
\* slot: it is Some(path) exactly when the slot holds an encoder, and that
\* encoder was created for path.
C22_TargetMirrorsSlot ==
    ((\A c \in Callers : pc[c] = "idle") /\ cmd_chan = <<>> /\ resp_chan = <<>>) =>
       /\ CURRENT_RECORDING # <<>> <=> writer # 0
       /\ CURRENT_RECORDING # <<>> =>
             encoders[writer].path = Head(CURRENT_RECORDING)

\* C23: every sample an encoder holds was written by the callback of the
\* session under which the encoder's StartRecording was handled: the callback
\* of a later session never writes into an encoder stored during an earlier
\* one.
C23_SamplesFromOwnSession ==
    \A e \in 1..Len(encoders) :
       \A i \in 1..Len(encoders[e].samples) :
          encoders[e].samples[i].sess = encoders[e].sess

\* C24: controller operations called from several threads are serialised.
\* At most one caller is between its send and its receive; at most one
\* command is in the queue; and while a command is in the queue no response
\* to an earlier command is still waiting to be consumed.
C24_CallsSerialised ==
    /\ Cardinality({c \in Threads : pc[c] = "recv"}) <= 1
    /\ Len(cmd_chan) <= 1
    /\ cmd_chan # <<>> => \A i \in 1..Len(resp_chan) : resp_chan[i].for = 0

\* the audio thread takes a command of the given type off its queue
CliHandles(type) == CliNextCmd(type) /\ cli_rx' = Tail(cli_rx)

\* a `stop` or an `exit` line has sent its commands and the audio thread has
\* not yet taken the last of them
ShutdownIssued == \E i \in 1..Len(cli_rx) : cli_rx[i].by \in {"stop", "exit"}

\* C25: after `stop` or `exit` the audio thread finalizes the recording, then
\* drops the stream, then leaves its loop.  When it takes the DropStream of a
\* `stop` or `exit` the slot is already empty; when it takes Exit the stream
\* is gone and the slot is empty; and once the commands are sent the thread
\* does not end while the slot still holds an encoder.
C25_ShutdownOrder ==
    [][ /\ (CliHandles("DropStream") /\ Head(cli_rx).by \in {"stop", "exit"}) =>
              cli_writer = 0
        /\ CliHandles("Exit") => (stream_option = <<>> /\ cli_writer = 0)
        /\ (ShutdownIssued /\ audio_pc = "running" /\ audio_pc' # "running") =>
              cli_writer = 0 ]_vars

\* C26: every `drop` and every `stop` typed while an audio thread exists
\* completes: once its commands are sent main sets audio_tx to None and goes
\* back to read the next line.
C26_DropAndStopComplete ==
    [][ (/\ main_pc = "read_line"
         /\ Len(cli_rx') > Len(cli_rx)
         /\ cli_rx'[Len(cli_rx')].by \in {"drop", "stop"}) =>
            (audio_tx' = <<>> /\ main_pc' = "read_line") ]_vars

\* C27: a `cancel` typed while an audio thread exists and no file name is
\* tracked (no `start` since the thread was made, or a `cancel` right after
\* a `cancel`) leaves main in its loop, reading the next line.
C27_CancelWithoutTarget ==
    [][ (main_cancel /\ audio_tx # <<>> /\ RxAlive /\
         current_recording_filename = <<>>) => main_pc' = "read_line" ]_vars

====
